---- MODULE Spec2Model ----
(***************************************************************************)
(* The collaborative technical-term store of RustoHebru:                   *)
(*   TechnicalDictionary  (src/src/technical_dictionary.rs)                *)
(*   KnowledgeManager     (src/src/knowledge_sharing.rs)                   *)
(* Text fields are sequences of characters; Option::None is the value None.*)
(* Time is counted in minutes since the program started.                   *)
(***************************************************************************)
EXTENDS Integers, Sequences, FiniteSets, TLC

\* ------------------------------------------------------------------ bounds
MaxNow == 30
TickMinutes == 15
MaxSaveFailures == 1
MaxVersionNow == 15
MaxChanges == 2
MaxActivities == 3
MaxFullLogPushes == 4
MaxComments == 2

\* ------------------------------------------------------- program constants
LockTTLMinutes == 30
ActivityLogCapacity == 1000
ConflictWindowMinutes == 30
ActiveWindowMinutes == 15

\* ------------------------------------------------------------ input values
None == "None"

HebA == <<"a">>
HebB == <<"b">>
RusA == <<"x">>
RusB == <<"y">>

Keys == {HebA, HebB}
Categories == {"c1", "c2"}
Contexts == {"x1"}
Tags == {"t1", "t2"}
Users == {"u1", "u2", "u3"}
VersionIds == {"v1", "v2"}
Descriptions == {"d1"}
Authors == {"u1"}
RequestIds == {"r1", "r2"}
ReviewStatuses == {"Pending", "InReview", "Approved", "Rejected", "NeedsChanges"}
\* The thread that runs the dialogs: the event loop eframe::run_native starts.
Threads == {"gui"}
\* The user of the interface (current_user_id).
CurrentUser == "u2"
\* What a thread that is in no handler looks like.
Idle == [at |-> "idle", show_review_dialog |-> FALSE, selected_review |-> None]
Mutexes == {"technical_dictionary", "knowledge_manager"}

VARIABLES
    terms,            \* TechnicalDictionary.terms : hebrew -> TechnicalTerm
    category_index,   \* TechnicalDictionary.category_index
    context_index,    \* TechnicalDictionary.context_index
    tag_index,        \* TechnicalDictionary.tag_index
    file,             \* the content of the file at TechnicalDictionary.file_path
    versions,         \* KnowledgeManager.versions
    edit_locks,       \* KnowledgeManager.edit_locks
    change_history,   \* KnowledgeManager.change_history
    collaborators,    \* KnowledgeManager.collaborators
    activity_log,     \* KnowledgeManager.activity_log, the front first
    review_requests,  \* KnowledgeManager.review_requests
    pc,               \* where each thread of the user interface is in its dialog
    mutex,            \* the holder of each of the two Mutexes made in main
    now,              \* Utc::now(), in minutes
    save_failures,    \* how many writes of the file have failed so far
    ret               \* the last call: its name, the keys it was given, what it returned

dictVars == <<terms, category_index, context_index, tag_index, file>>
kmVars ==
    <<versions, edit_locks, change_history, collaborators, activity_log, review_requests>>
envVars == <<now, save_failures>>
guiVars == <<pc, mutex>>
vars == <<dictVars, kmVars, envVars, guiVars, ret>>

\* ----------------------------------------------------------------- helpers
Range(f) == {f[x] : x \in DOMAIN f}

EmptyMap == <<>>

Put(m, k, v) == [x \in (DOMAIN m) \cup {k} |-> IF x = k THEN v ELSE m[x]]

Remove(m, k) == [x \in (DOMAIN m) \ {k} |-> m[x]]

SetToSeq(S) == CHOOSE s \in [1..Cardinality(S) -> S] : Range(s) = S

\* ----------------------------------------------------------- TechnicalTerm
MkTerm(h, r, ctx, cat, tg) ==
    [hebrew |-> h, russian |-> r, context |-> ctx, category |-> cat,
     notes |-> None, synonyms_he |-> <<>>, synonyms_ru |-> <<>>,
     usage_examples |-> <<>>, tags |-> tg, last_updated |-> 0]

Stamp(term, t) == [term EXCEPT !.last_updated = t]

\* The terms callers pass in: two per key, covering a present and an absent
\* category and context and every size of tag set.
TermInputs ==
    { MkTerm(HebA, RusA, None, "c1", {}),
      MkTerm(HebA, RusB, "x1", "c2", {"t1"}),
      MkTerm(HebB, RusA, "x1", "c1", {"t1", "t2"}),
      MkTerm(HebB, RusB, None, None, {"t2"}) }

\* The terms callers pass in while versions are being taken: two for one key
\* and one for the other.
VersionTermInputs ==
    { MkTerm(HebA, RusA, None, "c1", {}),
      MkTerm(HebA, RusB, "x1", "c2", {"t1"}),
      MkTerm(HebB, RusA, "x1", "c1", {"t1", "t2"}) }

\* The terms callers pass to add_term unchecked: one with both texts, one
\* with no hebrew text and one with no russian text.
UncheckedTermInputs ==
    { MkTerm(HebA, RusA, None, "c1", {}),
      MkTerm(<<>>, RusA, None, "c1", {"t1"}),
      MkTerm(HebB, <<>>, "x1", None, {}) }

\* The terms of a dictionary that translates: the hebrew text of one is part
\* of the hebrew text of another, and the russian text of one is the hebrew
\* text of another.
TranslateTermInputs ==
    { MkTerm(HebA, RusA, None, None, {}),
      MkTerm(<<"a", "b">>, RusB, None, None, {}),
      MkTerm(HebB, <<"a">>, None, None, {}) }

\* The texts given to translate, and the languages.
TranslateTexts == { <<"a">>, <<"a", "b">>, <<"b">>, <<"b", "x">> }

TranslateLangs == {"he", "ru", "en"}

\* Term maps handed to import_terms / merge_with while versions are being taken.
VersionInputMaps ==
    { EmptyMap,
      [k \in {HebB} |-> Stamp(MkTerm(HebB, RusA, "x1", "c1", {"t1", "t2"}), 0)] }

\* Term maps handed to import_terms / restore_snapshot / merge_with: the terms
\* of another dictionary or of a snapshot, stamped when they were written
\* there. One of them holds a term under a key that is not its hebrew field.
InputMaps ==
    { EmptyMap,
      [k \in {HebA} |-> Stamp(MkTerm(HebA, RusB, "x1", "c2", {"t1"}), now)],
      [k \in {HebB} |-> Stamp(MkTerm(HebB, RusB, None, None, {"t2"}), 0)],
      [k \in {HebA} |-> Stamp(MkTerm(HebB, RusA, "x1", "c1", {"t1", "t2"}), 0)],
      [k \in Keys |-> Stamp(MkTerm(k, RusA, None, "c1", {"t1"}), TickMinutes)] }

\* A term with synonyms.
MkSearchTerm(h, r, syn_he, syn_ru, ctx, cat, tg) ==
    [MkTerm(h, r, ctx, cat, tg) EXCEPT !.synonyms_he = syn_he, !.synonyms_ru = syn_ru]

HebAB == <<"a", "b">>

SearchKeys == {HebA, HebAB, HebB}

\* The terms of the dictionary that is searched: hebrew fields of which one
\* contains another, russian fields that differ in case only or contain one
\* another, a term with synonyms, two terms of one key and two of one hebrew.
SearchTermInputs ==
    { MkSearchTerm(HebA, <<"X">>, <<>>, <<>>, None, "c1", {}),
      MkSearchTerm(HebAB, <<"x", "y">>, <<>>, <<>>, "x1", "c2", {"t1"}),
      MkSearchTerm(HebB, <<"x">>, <<HebA>>, << <<"Y">> >>, "x1", None, {"t1", "t2"}),
      MkSearchTerm(HebA, <<"y">>, <<>>, <<>>, None, "c2", {"t2"}),
      MkSearchTerm(HebB, <<"y">>, <<>>, <<>>, None, "c1", {"t1"}) }

\* The changes callers hand to track_change: one of each ChangeType.
ChangeInputs ==
    { [change_type |-> "Addition", field |-> "term", old_value |-> None, new_value |-> "x"],
      [change_type |-> "Modification", field |-> "russian", old_value |-> "x", new_value |-> "y"],
      [change_type |-> "Deletion", field |-> "term", old_value |-> "y", new_value |-> None] }

\* The terms added and updated while changes are recorded: one per key.
LedgerTermInputs ==
    { MkTerm(HebA, RusA, None, "c1", {}),
      MkTerm(HebB, RusB, "x1", None, {"t1"}) }

\* Option<String> of CollaboratorActivity.term_id.
NoTermId == [some |-> FALSE, value |-> <<>>]

SomeTermId(term_id) == [some |-> TRUE, value |-> term_id]

MkActivity(activity_type, term_id, t) ==
    [activity_type |-> activity_type, term_id |-> term_id, started_at |-> t,
     status |-> "InProgress"]

\* Option<CollaboratorActivity> of CollaboratorInfo.current_activity.
NoActivity == [some |-> FALSE, value |-> MkActivity(None, NoTermId, 0)]

SomeActivity(activity) == [some |-> TRUE, value |-> activity]

\* The activities callers report at time t: editing either term, and a review
\* of no term in particular. An activity starts when it is reported.
ActivityInputs(t) ==
    { MkActivity("Editing", SomeTermId(HebA), t),
      MkActivity("Editing", SomeTermId(HebB), t),
      MkActivity("Reviewing", NoTermId, t) }

\* The edits among them.
EditingInputs(t) == {a \in ActivityInputs(t) : a.activity_type = "Editing"}

\* The users that register as collaborators; "u3" never does.
Registrants == {"u1", "u2"}

\* ----------------------------------------------------- TechnicalDictionary
Dict ==
    [terms |-> terms, category_index |-> category_index,
     context_index |-> context_index, tag_index |-> tag_index, file |-> file]

\* An Option<String> in JSON: null, or the string.
JsonNull == [null |-> TRUE, string |-> ""]

JsonString(s) == [null |-> FALSE, string |-> s]

OptionToJson(o) == IF o = None THEN JsonNull ELSE JsonString(o)

OptionFromJson(j) == IF j.null THEN None ELSE j.string

\* serde_json::to_string_pretty(&self.terms): a set becomes an array, an
\* absent value null.
ToJson(ts) ==
    [k \in DOMAIN ts |->
        [ts[k] EXCEPT !.tags = SetToSeq(ts[k].tags),
                      !.context = OptionToJson(ts[k].context),
                      !.category = OptionToJson(ts[k].category),
                      !.notes = OptionToJson(ts[k].notes)]]

\* serde_json::from_str: an array becomes a set again, null an absent value.
FromJson(js) ==
    [k \in DOMAIN js |->
        [js[k] EXCEPT !.tags = Range(js[k].tags),
                      !.context = OptionFromJson(js[k].context),
                      !.category = OptionFromJson(js[k].category),
                      !.notes = OptionFromJson(js[k].notes)]]

CategoryIndexOf(ts) ==
    [c \in {ts[k].category : k \in DOMAIN ts} \ {None} |->
        {k \in DOMAIN ts : ts[k].category = c}]

ContextIndexOf(ts) ==
    [c \in {ts[k].context : k \in DOMAIN ts} \ {None} |->
        {k \in DOMAIN ts : ts[k].context = c}]

TagIndexOf(ts) ==
    [g \in UNION {ts[k].tags : k \in DOMAIN ts} |->
        {k \in DOMAIN ts : g \in ts[k].tags}]

\* rebuild_indices without the three clear() calls: old entries stay.
KeepOld(old, new) ==
    [c \in (DOMAIN old) \cup (DOMAIN new) |->
        (IF c \in DOMAIN old THEN old[c] ELSE {})
            \cup (IF c \in DOMAIN new THEN new[c] ELSE {})]

rebuild_indices_no_clear(d) ==
    [d EXCEPT !.category_index = KeepOld(d.category_index, CategoryIndexOf(d.terms)),
              !.context_index = KeepOld(d.context_index, ContextIndexOf(d.terms)),
              !.tag_index = KeepOld(d.tag_index, TagIndexOf(d.terms))]

rebuild_indices(d) ==
    [d EXCEPT !.category_index = CategoryIndexOf(d.terms),
              !.context_index = ContextIndexOf(d.terms),
              !.tag_index = TagIndexOf(d.terms)]

\* save had a failed write put the dictionary back to what the file holds.
save_reverting(d, io) ==
    IF io
    THEN [dict |-> [d EXCEPT !.file = [exists |-> TRUE, content |-> ToJson(d.terms)]],
          res |-> "Ok"]
    ELSE [dict |-> rebuild_indices(
                    [d EXCEPT !.terms = IF d.file.exists THEN FromJson(d.file.content)
                                        ELSE EmptyMap]),
          res |-> "Err"]

\* save had it write the file when there is none yet, and leave a file that
\* is there.
save_create_only(d, io) ==
    IF io
    THEN [dict |-> [d EXCEPT !.file = IF d.file.exists THEN d.file
                                      ELSE [exists |-> TRUE, content |-> ToJson(d.terms)]],
          res |-> "Ok"]
    ELSE [dict |-> d, res |-> "Err"]

\* save: io is whether fs::write succeeds.
save(d, io) ==
    IF io
    THEN [dict |-> [d EXCEPT !.file = [exists |-> TRUE, content |-> ToJson(d.terms)]],
          res |-> "Ok"]
    ELSE [dict |-> d, res |-> "Err"]

\* str::replace: every match of from in s, found from left to right without
\* overlap, becomes to; an empty from matches before every character and at
\* the end.
RECURSIVE replace(_, _, _)
replace(s, from, to) ==
    IF from = <<>>
    THEN IF s = <<>> THEN to ELSE to \o <<Head(s)>> \o replace(Tail(s), from, to)
    ELSE IF Len(s) < Len(from) THEN s
    ELSE IF SubSeq(s, 1, Len(from)) = from
    THEN to \o replace(SubSeq(s, Len(from) + 1, Len(s)), from, to)
    ELSE <<Head(s)>> \o replace(Tail(s), from, to)

\* for synonym in synonyms { result = result.replace(synonym, replacement) }
RECURSIVE replace_synonyms(_, _, _, _)
replace_synonyms(result, synonyms, replacement, j) ==
    IF j > Len(synonyms) THEN result
    ELSE replace_synonyms(replace(result, synonyms[j], replacement),
                          synonyms, replacement, j + 1)

\* The loop of translate over self.terms.values(), which come in order.
RECURSIVE translate_loop(_, _, _, _, _)
translate_loop(ts, result, source_lang, order, i) ==
    IF i > Len(order) THEN result
    ELSE
      LET term == ts[order[i]] IN
      IF source_lang = "he"
      THEN translate_loop(ts,
               replace_synonyms(replace(result, term.hebrew, term.russian),
                                term.synonyms_he, term.russian, 1),
               source_lang, order, i + 1)
      ELSE IF source_lang = "ru"
      THEN translate_loop(ts,
               replace_synonyms(replace(result, term.russian, term.hebrew),
                                term.synonyms_ru, term.hebrew, 1),
               source_lang, order, i + 1)
      ELSE translate_loop(ts, result, source_lang, order, i + 1)

\* translate: order is the order in which the HashMap yields the terms.
translate(d, text, source_lang, order) ==
    translate_loop(d.terms, text, source_lang, order, 1)

\* TechnicalDictionary::new on the file f: the map read from the file, or an
\* empty map when there is no file, and the indices built from it.
TechnicalDictionary_new(f) ==
    rebuild_indices(
        [terms |-> IF f.exists THEN FromJson(f.content) ELSE EmptyMap,
         category_index |-> EmptyMap, context_index |-> EmptyMap,
         tag_index |-> EmptyMap, file |-> f])

add_term(d, term, t, io) ==
    save(rebuild_indices(
            [d EXCEPT !.terms = Put(d.terms, term.hebrew, Stamp(term, t))]), io)

\* update_term had it insert the updates under a key the map does not hold.
update_term_upsert(d, hebrew, updates, t, io) ==
    save(rebuild_indices(
            [d EXCEPT !.terms = Put(d.terms, hebrew, Stamp(updates, t))]), io)

update_term(d, hebrew, updates, t, io) ==
    IF hebrew \in DOMAIN d.terms
    THEN save(rebuild_indices(
            [d EXCEPT !.terms = Put(d.terms, hebrew, Stamp(updates, t))]), io)
    ELSE [dict |-> d, res |-> "Ok"]

delete_term(d, hebrew, io) ==
    save(rebuild_indices([d EXCEPT !.terms = Remove(d.terms, hebrew)]), io)

import_terms(d, ts, io) ==
    save(rebuild_indices([d EXCEPT !.terms = ts]), io)

merge_with(d, other, io) ==
    save(rebuild_indices(
        [d EXCEPT !.terms =
            [k \in (DOMAIN d.terms) \cup (DOMAIN other) |->
                IF k \in DOMAIN other
                   /\ (k \notin DOMAIN d.terms
                       \/ d.terms[k].last_updated < other[k].last_updated)
                THEN other[k]
                ELSE d.terms[k]]]), io)

restore_snapshot(d, snapshot, io) ==
    save(rebuild_indices([d EXCEPT !.terms = snapshot]), io)

get_all_terms_map(d) == d.terms

get_all_tags_set(d) == UNION {d.terms[k].tags : k \in DOMAIN d.terms}

\* ------------------------------------------------------------------ search
\* Option<Vec<String>> of a SearchQuery.
NoneVec == [some |-> FALSE, vec |-> <<>>]

SomeVec(v) == [some |-> TRUE, vec |-> v]

\* to_lowercase had it return its argument as it is.
to_lowercase_identity(s) == s

\* char::to_lowercase: the letters of the russian fields have capitals, those
\* of the hebrew fields have no case.
to_lowercase_char(c) ==
    CASE c = "X" -> "x"
      [] c = "Y" -> "y"
      [] OTHER -> c

\* str::to_lowercase
to_lowercase(s) == [i \in 1..Len(s) |-> to_lowercase_char(s[i])]

\* str::contains
contains(s, pat) ==
    \E i \in 0..(Len(s) - Len(pat)) : SubSeq(s, i + 1, i + Len(pat)) = pat

\* The characters in the order of their UTF-8 bytes: capitals before small
\* letters, the russian letters before the hebrew ones.
CharOrder == <<"X", "Y", "x", "y", "a", "b">>

CharCode(c) == CHOOSE i \in 1..Len(CharOrder) : CharOrder[i] = c

\* a.cmp(b) == Ordering::Less, for strings
Less(a, b) ==
    \E i \in 1..Len(b) :
        /\ i <= Len(a) + 1
        /\ \A j \in 1..(i - 1) : a[j] = b[j]
        /\ (i = Len(a) + 1 \/ CharCode(a[i]) < CharCode(b[i]))

\* The test applied to the primary field and to each synonym.
text_matches(text, search_text, exact_match) ==
    IF exact_match
    THEN to_lowercase(text) = search_text
    ELSE contains(to_lowercase(text), search_text)

\* should_include had it look at the synonyms whatever include_synonyms says.
should_include_any_synonym(term, query) ==
    LET search_text == to_lowercase(query.text)
        term_text == IF query.lang = "he" THEN term.hebrew ELSE term.russian
        synonyms == IF query.lang = "he" THEN term.synonyms_he ELSE term.synonyms_ru
    IN  /\ query.lang \in {"he", "ru"}
        /\ \/ text_matches(term_text, search_text, query.exact_match)
           \/ \E i \in DOMAIN synonyms :
                    text_matches(synonyms[i], search_text, query.exact_match)

\* The value of should_include at the end of the loop body of search; a query
\* in another language than "he" and "ru" skips every term.
should_include(term, query) ==
    LET search_text == to_lowercase(query.text)
        term_text == IF query.lang = "he" THEN term.hebrew ELSE term.russian
        synonyms == IF query.lang = "he" THEN term.synonyms_he ELSE term.synonyms_ru
    IN  /\ query.lang \in {"he", "ru"}
        /\ \/ text_matches(term_text, search_text, query.exact_match)
           \/ /\ query.include_synonyms
              /\ \E i \in DOMAIN synonyms :
                    text_matches(synonyms[i], search_text, query.exact_match)

\* retained had the tag filter keep a term that has any of the requested tags.
retained_any_tag(term, query) ==
    /\ query.categories.some =>
          (term.category # None /\ term.category \in Range(query.categories.vec))
    /\ query.contexts.some =>
          (term.context # None /\ term.context \in Range(query.contexts.vec))
    /\ query.tags.some => \E i \in DOMAIN query.tags.vec : query.tags.vec[i] \in term.tags

\* The three results.retain(..) of search.
retained(term, query) ==
    /\ query.categories.some =>
          (term.category # None /\ term.category \in Range(query.categories.vec))
    /\ query.contexts.some =>
          (term.context # None /\ term.context \in Range(query.contexts.vec))
    /\ query.tags.some => \A i \in DOMAIN query.tags.vec : query.tags.vec[i] \in term.tags

\* sort_by_hebrew had it leave the Vec in the order of the HashSet.
sort_by_hebrew_unsorted(v) == v

\* results_vec.sort_by(|a, b| a.hebrew.cmp(&b.hebrew)): a stable sort, so terms
\* of equal hebrew stay in the order the HashSet gave them.
RECURSIVE sort_by_hebrew(_)
sort_by_hebrew(v) ==
    IF v = <<>>
    THEN <<>>
    ELSE LET sorted == sort_by_hebrew(SubSeq(v, 1, Len(v) - 1))
             x == v[Len(v)]
             k == Cardinality({i \in DOMAIN sorted : ~Less(x.hebrew, sorted[i].hebrew)})
         IN  SubSeq(sorted, 1, k) \o <<x>> \o SubSeq(sorted, k + 1, Len(sorted))

\* search(&self, query). results is a HashSet of the terms, so equal terms
\* under two keys are in it once; order is the order in which the HashSet
\* yields the terms of the map.
search(d, query, order) ==
    LET results == {term \in Range(d.terms) :
                        should_include(term, query) /\ retained(term, query)}
        results_vec == SelectSeq(order, LAMBDA term : term \in results)
    IN  sort_by_hebrew(results_vec)

\* The texts searched for.
SearchTexts == {HebA, <<"x">>, <<"Y">>}

\* The category, context and tag filters of the queries.
FilterInputs ==
    { [categories |-> NoneVec, contexts |-> NoneVec, tags |-> NoneVec],
      [categories |-> SomeVec(<<"c1">>), contexts |-> NoneVec, tags |-> NoneVec],
      [categories |-> SomeVec(<<"c1", "c2">>), contexts |-> NoneVec, tags |-> NoneVec],
      [categories |-> NoneVec, contexts |-> SomeVec(<<"x1">>), tags |-> NoneVec],
      [categories |-> NoneVec, contexts |-> NoneVec, tags |-> SomeVec(<<"t1">>)],
      [categories |-> NoneVec, contexts |-> NoneVec, tags |-> SomeVec(<<"t1", "t2">>)],
      [categories |-> SomeVec(<<"c2">>), contexts |-> NoneVec, tags |-> SomeVec(<<"t1">>)] }

\* The SearchQuery values callers pass in.
Queries ==
    { [text |-> text, lang |-> lang, categories |-> f.categories,
       contexts |-> f.contexts, tags |-> f.tags,
       include_synonyms |-> include_synonyms, exact_match |-> exact_match] :
        text \in SearchTexts, lang \in {"he", "ru"}, f \in FilterInputs,
        include_synonyms \in BOOLEAN, exact_match \in BOOLEAN }
    \cup
    { [text |-> HebA, lang |-> "en", categories |-> NoneVec, contexts |-> NoneVec,
       tags |-> NoneVec, include_synonyms |-> include_synonyms, exact_match |-> FALSE] :
        include_synonyms \in BOOLEAN }

\* -------------------------------------------------------- KnowledgeManager
\* Each operation gives the new value of the fields it writes and what it
\* returns; t is Utc::now().
acquire_edit_lock_no_expiry(locks, term_id, user_id, t) ==
    IF term_id \in DOMAIN locks
    THEN [locks |-> locks, val |-> FALSE]
    ELSE [locks |-> Put(locks, term_id,
                        [term_id |-> term_id, locked_by |-> user_id,
                         locked_at |-> t, expires_at |-> t + LockTTLMinutes]),
          val |-> TRUE]

acquire_edit_lock(locks, term_id, user_id, t) ==
    IF term_id \in DOMAIN locks /\ locks[term_id].expires_at > t
    THEN [locks |-> locks, val |-> FALSE]
    ELSE [locks |-> Put(locks, term_id,
                        [term_id |-> term_id, locked_by |-> user_id,
                         locked_at |-> t, expires_at |-> t + LockTTLMinutes]),
          val |-> TRUE]

release_edit_lock_any_caller(locks, term_id, user_id) ==
    IF term_id \in DOMAIN locks
    THEN [locks |-> Remove(locks, term_id), val |-> TRUE]
    ELSE [locks |-> locks, val |-> FALSE]

release_edit_lock(locks, term_id, user_id) ==
    IF term_id \in DOMAIN locks /\ locks[term_id].locked_by = user_id
    THEN [locks |-> Remove(locks, term_id), val |-> TRUE]
    ELSE [locks |-> locks, val |-> FALSE]

\* track_change had it start the history of the term anew with the change.
track_change_replace(ch, term_id, changed_by, change_type, field, old_value, new_value, t) ==
    Put(ch, term_id,
        [term_id |-> term_id,
         changes |-> <<[timestamp |-> t, changed_by |-> changed_by,
                        change_type |-> change_type, old_value |-> old_value,
                        new_value |-> new_value, field |-> field]>>])

\* track_change: the new value of change_history.
track_change(ch, term_id, changed_by, change_type, field, old_value, new_value, t) ==
    LET change == [timestamp |-> t, changed_by |-> changed_by,
                   change_type |-> change_type, old_value |-> old_value,
                   new_value |-> new_value, field |-> field]
        entry == IF term_id \in DOMAIN ch
                 THEN ch[term_id]
                 ELSE [term_id |-> term_id, changes |-> <<>>]
    IN  Put(ch, term_id, [entry EXCEPT !.changes = Append(entry.changes, change)])

\* Option<&TermChangeHistory>::None
NoHistory == [some |-> FALSE, term_id |-> None, changes |-> <<>>]

get_term_history(ch, term_id) ==
    IF term_id \in DOMAIN ch
    THEN [some |-> TRUE, term_id |-> ch[term_id].term_id, changes |-> ch[term_id].changes]
    ELSE NoHistory

add_collaborator(cs, user_id, name, role, t) ==
    Put(cs, user_id,
        [user_id |-> user_id, name |-> name, role |-> role, last_active |-> t,
         current_activity |-> NoActivity, edit_history |-> <<>>])

\* update_collaborator_activity had it record the activity of a user who is
\* not a collaborator in the log.
update_collaborator_activity_logs_anyone(cs, log, user_id, activity, t) ==
    [collaborators |->
        IF user_id \in DOMAIN cs
        THEN [cs EXCEPT ![user_id].last_active = t,
                        ![user_id].current_activity = SomeActivity(activity)]
        ELSE cs,
     activity_log |->
        LET pushed == <<activity>> \o log IN
        IF Len(pushed) > ActivityLogCapacity
        THEN SubSeq(pushed, 1, Len(pushed) - 1)
        ELSE pushed]

\* get_active_collaborators: the user ids of the collaborators it returns.
get_active_collaborators(cs, t) ==
    {u \in DOMAIN cs : cs[u].last_active > t - ActiveWindowMinutes}

\* update_collaborator_activity had it never drop an entry of the log.
update_collaborator_activity_no_eviction(cs, log, user_id, activity, t) ==
    IF user_id \in DOMAIN cs
    THEN [collaborators |-> [cs EXCEPT ![user_id].last_active = t,
                                       ![user_id].current_activity = SomeActivity(activity)],
          activity_log |-> <<activity>> \o log]
    ELSE [collaborators |-> cs, activity_log |-> log]

\* update_collaborator_activity: the new values of collaborators and of
\* activity_log (push_front, then pop_back when the log is over capacity).
update_collaborator_activity(cs, log, user_id, activity, t) ==
    IF user_id \in DOMAIN cs
    THEN [collaborators |-> [cs EXCEPT ![user_id].last_active = t,
                                       ![user_id].current_activity = SomeActivity(activity)],
          activity_log |->
              LET pushed == <<activity>> \o log IN
              IF Len(pushed) > ActivityLogCapacity
              THEN SubSeq(pushed, 1, Len(pushed) - 1)
              ELSE pushed]
    ELSE [collaborators |-> cs, activity_log |-> log]

\* get_edit_conflicts had it pass over the locks that have expired.
get_edit_conflicts_unexpired_locks(locks, log, t) ==
    { <<k, locks[k]>> : k \in
        {k \in DOMAIN locks :
            /\ locks[k].expires_at > t
            /\ Cardinality({i \in DOMAIN log :
                    /\ log[i].activity_type = "Editing"
                    /\ log[i].term_id = SomeTermId(locks[k].term_id)
                    /\ log[i].started_at > t - ConflictWindowMinutes}) > 1} }

\* get_edit_conflicts: the (key, lock) pairs of the Vec it returns, which are
\* in the order of the HashMap.
get_edit_conflicts(locks, log, t) ==
    { <<k, locks[k]>> : k \in
        {k \in DOMAIN locks :
            Cardinality({i \in DOMAIN log :
                /\ log[i].activity_type = "Editing"
                /\ log[i].term_id = SomeTermId(locks[k].term_id)
                /\ log[i].started_at > t - ConflictWindowMinutes}) > 1} }

\* create_review_request: request_id is the Uuid::new_v4() it draws.
create_review_request(rr, request_id, term_id, requested_by, reviewers, t) ==
    [review_requests |->
        Put(rr, request_id,
            [request_id |-> request_id, term_id |-> term_id,
             requested_by |-> requested_by, requested_at |-> t,
             reviewers |-> reviewers, status |-> "Pending", comments |-> <<>>]),
     val |-> request_id]

\* add_review_comment had the first comment on a pending request start the
\* review.
add_review_comment_starts_review(rr, request_id, author, content, field, t) ==
    IF request_id \in DOMAIN rr
    THEN [review_requests |->
            [rr EXCEPT ![request_id].comments =
                            Append(@, [author |-> author, timestamp |-> t,
                                       content |-> content, field |-> field]),
                       ![request_id].status =
                            IF @ = "Pending" THEN "InReview" ELSE @],
          val |-> "Ok"]
    ELSE [review_requests |-> rr, val |-> "Ok"]

add_review_comment(rr, request_id, author, content, field, t) ==
    IF request_id \in DOMAIN rr
    THEN [review_requests |->
            [rr EXCEPT ![request_id].comments =
                            Append(@, [author |-> author, timestamp |-> t,
                                       content |-> content, field |-> field])],
          val |-> "Ok"]
    ELSE [review_requests |-> rr, val |-> "Ok"]

update_review_status(rr, request_id, status) ==
    IF request_id \in DOMAIN rr
    THEN [review_requests |-> [rr EXCEPT ![request_id].status = status], val |-> "Ok"]
    ELSE [review_requests |-> rr, val |-> "Ok"]

\* get_pending_reviews: the ids of the requests it returns.
get_pending_reviews(rr, reviewer_id) ==
    {id \in DOMAIN rr :
        /\ \E i \in DOMAIN rr[id].reviewers : rr[id].reviewers[i] = reviewer_id
        /\ rr[id].status \in {"Pending", "InReview"}}

\* get_review_request, which the review dialog calls: whether the manager
\* has the request.
get_review_request(rr, request_id) == request_id \in DOMAIN rr

\* Mutex::lock by a thread that holds the mutex: the call does not return;
\* it deadlocks or it panics.
RelockOutcomes == {"deadlocked", "panicked"}

\* All the orders in which a HashMap may yield the keys in S.
Orders(S) ==
    {o \in [1..Cardinality(S) -> S] : \A i, j \in 1..Cardinality(S) : o[i] = o[j] => i = j}

\* The Vec built by pushing f[k] for the keys k of order, in order.
Collect(order, f) == [i \in 1..Len(order) |-> f[order[i]]]

create_version(vs, d, version_id, created_by, description, t) ==
    [versions |-> Put(vs, version_id,
                      [version_id |-> version_id, created_at |-> t,
                       created_by |-> created_by, description |-> description,
                       terms |-> get_all_terms_map(d), tags |-> get_all_tags_set(d)]),
     val |-> "Ok"]

NoReport ==
    [some |-> FALSE, added_terms |-> <<>>, updated_terms |-> <<>>,
     conflicting_terms |-> <<>>, timestamp |-> 0]

\* compare_versions without the test on last_updated.
compare_versions_no_timestamp_test(vs, version1_id, version2_id, order2, order1, t) ==
    IF version1_id \notin DOMAIN vs \/ version2_id \notin DOMAIN vs
    THEN NoReport
    ELSE LET v1 == vs[version1_id].terms
             v2 == vs[version2_id].terms
         IN  [some |-> TRUE,
              added_terms |->
                 Collect(SelectSeq(order2, LAMBDA k : k \notin DOMAIN v1), v2),
              updated_terms |->
                 Collect(SelectSeq(order2,
                            LAMBDA k : k \in DOMAIN v1 /\ v1[k] # v2[k]), v2),
              conflicting_terms |->
                 Collect(SelectSeq(order1,
                            LAMBDA k : k \in DOMAIN v2 /\ v1[k] # v2[k]),
                         [k \in DOMAIN v1 \cap DOMAIN v2 |-> <<v1[k], v2[k]>>]),
              timestamp |-> t]

\* order2 and order1 are the orders in which v2.terms and v1.terms are iterated.
compare_versions(vs, version1_id, version2_id, order2, order1, t) ==
    IF version1_id \notin DOMAIN vs \/ version2_id \notin DOMAIN vs
    THEN NoReport
    ELSE LET v1 == vs[version1_id].terms
             v2 == vs[version2_id].terms
         IN  [some |-> TRUE,
              added_terms |->
                 Collect(SelectSeq(order2, LAMBDA k : k \notin DOMAIN v1), v2),
              updated_terms |->
                 Collect(SelectSeq(order2,
                            LAMBDA k : k \in DOMAIN v1 /\ v1[k] # v2[k]), v2),
              conflicting_terms |->
                 Collect(SelectSeq(order1,
                            LAMBDA k : /\ k \in DOMAIN v2
                                       /\ v1[k].last_updated = v2[k].last_updated
                                       /\ v1[k] # v2[k]),
                         [k \in DOMAIN v1 \cap DOMAIN v2 |-> <<v1[k], v2[k]>>]),
              timestamp |-> t]

EmptyReport(t) ==
    [added_terms |-> <<>>, updated_terms |-> <<>>, conflicting_terms |-> <<>>,
     timestamp |-> t]

\* The loop of merge_dictionaries from the i-th term of other_dict on; order is
\* the order in which the HashMap yields other_dict's terms, fail_at the
\* iteration in which a write of the file fails (0: none does). An error
\* leaves the loop at once (the ? operator) and the report is dropped.
RECURSIVE merge_loop(_, _, _, _, _, _, _)
merge_loop(base_dict, other, order, i, report, t, fail_at) ==
    IF i > Len(order)
    THEN [dict |-> base_dict, res |-> "Ok", report |-> report]
    ELSE
      LET term_id == order[i]
          other_term == other[term_id]
          io == (i # fail_at)
      IN
      IF term_id \in DOMAIN base_dict.terms
      THEN
        LET base_term == base_dict.terms[term_id] IN
        IF base_term.last_updated < other_term.last_updated
        THEN
          LET r == update_term(base_dict, term_id, other_term, t, io) IN
          IF r.res = "Err"
          THEN [dict |-> r.dict, res |-> "Err", report |-> EmptyReport(t)]
          ELSE merge_loop(r.dict, other, order, i + 1,
                   [report EXCEPT !.updated_terms = Append(@, other_term)],
                   t, fail_at)
        ELSE IF base_term.last_updated > other_term.last_updated
        THEN merge_loop(base_dict, other, order, i + 1, report, t, fail_at)
        ELSE merge_loop(base_dict, other, order, i + 1,
                 [report EXCEPT !.conflicting_terms =
                                    Append(@, <<base_term, other_term>>)],
                 t, fail_at)
      ELSE
        LET r == add_term(base_dict, other_term, t, io) IN
        IF r.res = "Err"
        THEN [dict |-> r.dict, res |-> "Err", report |-> EmptyReport(t)]
        ELSE merge_loop(r.dict, other, order, i + 1,
                 [report EXCEPT !.added_terms = Append(@, other_term)],
                 t, fail_at)

merge_dictionaries(base_dict, other, order, t, fail_at) ==
    merge_loop(base_dict, get_all_terms_map([terms |-> other]), order, 1,
               EmptyReport(t), t, fail_at)

\* ------------------------------------------------------------------- state
Init ==
    /\ terms = EmptyMap
    /\ category_index = EmptyMap
    /\ context_index = EmptyMap
    /\ tag_index = EmptyMap
    /\ file = [exists |-> FALSE, content |-> EmptyMap]
    /\ versions = EmptyMap
    /\ edit_locks = EmptyMap
    /\ change_history = EmptyMap
    /\ collaborators = EmptyMap
    /\ activity_log = <<>>
    /\ review_requests = EmptyMap
    /\ pc = [t \in Threads |-> Idle]
    /\ mutex = [m \in Mutexes |-> None]
    /\ now = 0
    /\ save_failures = 0
    /\ ret = [op |-> "new", args |-> <<>>, val |-> "Ok"]

\* The outcomes a write of the file may have in this step.
SaveOutcomes == IF save_failures < MaxSaveFailures THEN {TRUE, FALSE} ELSE {TRUE}

\* DictStep had the stored versions share the live term map instead of
\* holding a clone of it.
DictStep_shared_terms(op, args, r, io) ==
    /\ terms' = r.dict.terms
    /\ category_index' = r.dict.category_index
    /\ context_index' = r.dict.context_index
    /\ tag_index' = r.dict.tag_index
    /\ file' = r.dict.file
    /\ save_failures' = IF r.res = "Err" THEN save_failures + 1 ELSE save_failures
    /\ ret' = [op |-> op, args |-> args, val |-> r.res]
    /\ versions' = [v \in DOMAIN versions |->
                        [versions[v] EXCEPT !.terms = r.dict.terms]]
    /\ UNCHANGED <<edit_locks, change_history, collaborators,
                   activity_log, review_requests, now, guiVars>>

\* A dictionary call returned r: the dictionary is r.dict, the caller sees r.res.
DictStep(op, args, r, io) ==
    /\ terms' = r.dict.terms
    /\ category_index' = r.dict.category_index
    /\ context_index' = r.dict.context_index
    /\ tag_index' = r.dict.tag_index
    /\ file' = r.dict.file
    /\ save_failures' = IF r.res = "Err" THEN save_failures + 1 ELSE save_failures
    /\ ret' = [op |-> op, args |-> args, val |-> r.res]
    /\ UNCHANGED <<kmVars, now, guiVars>>

AddTerm(term, io) ==
    DictStep("add_term", <<term.hebrew>>, add_term(Dict, term, now, io), io)

UpdateTerm(hebrew, updates, io) ==
    DictStep("update_term", <<hebrew, updates.hebrew>>,
             update_term(Dict, hebrew, updates, now, io), io)

DeleteTerm(hebrew, io) ==
    DictStep("delete_term", <<hebrew>>, delete_term(Dict, hebrew, io), io)

ImportTerms(ts, io) ==
    DictStep("import_terms", <<DOMAIN ts>>, import_terms(Dict, ts, io), io)

MergeWith(other, io) ==
    DictStep("merge_with", <<DOMAIN other>>, merge_with(Dict, other, io), io)

RestoreSnapshot(snapshot, io) ==
    DictStep("restore_snapshot", <<DOMAIN snapshot>>, restore_snapshot(Dict, snapshot, io), io)

AcquireEditLock(term_id, user_id) ==
    LET r == acquire_edit_lock(edit_locks, term_id, user_id, now) IN
    /\ edit_locks' = r.locks
    /\ ret' = [op |-> "acquire_edit_lock", args |-> <<term_id, user_id>>, val |-> r.val]
    /\ UNCHANGED <<dictVars, versions, change_history, collaborators,
                   activity_log, review_requests, envVars, guiVars>>

ReleaseEditLock(term_id, user_id) ==
    LET r == release_edit_lock(edit_locks, term_id, user_id) IN
    /\ edit_locks' = r.locks
    /\ ret' = [op |-> "release_edit_lock", args |-> <<term_id, user_id>>, val |-> r.val]
    /\ UNCHANGED <<dictVars, versions, change_history, collaborators,
                   activity_log, review_requests, envVars, guiVars>>

CreateVersion(version_id, created_by, description) ==
    LET r == create_version(versions, Dict, version_id, created_by, description, now) IN
    /\ versions' = r.versions
    /\ ret' = [op |-> "create_version", args |-> <<version_id, created_by, description>>,
               val |-> r.val]
    /\ UNCHANGED <<dictVars, edit_locks, change_history, collaborators,
                   activity_log, review_requests, envVars, guiVars>>

CompareVersions(version1_id, version2_id, order2, order1) ==
    /\ ret' = [op |-> "compare_versions", args |-> <<version1_id, version2_id>>,
               val |-> compare_versions(versions, version1_id, version2_id,
                                        order2, order1, now)]
    /\ UNCHANGED <<dictVars, kmVars, envVars, guiVars>>

Search(query, order) ==
    /\ ret' = [op |-> "search", args |-> <<query>>, val |-> search(Dict, query, order)]
    /\ UNCHANGED <<dictVars, kmVars, envVars, guiVars>>

TrackChange(term_id, changed_by, c) ==
    /\ term_id \in DOMAIN change_history =>
            Len(change_history[term_id].changes) < MaxChanges
    /\ change_history' = track_change(change_history, term_id, changed_by, c.change_type,
                                      c.field, c.old_value, c.new_value, now)
    /\ ret' = [op |-> "track_change", args |-> <<term_id, c.change_type>>, val |-> "Ok"]
    /\ UNCHANGED <<dictVars, versions, edit_locks, collaborators,
                   activity_log, review_requests, envVars, guiVars>>

GetTermHistory(term_id) ==
    /\ ret' = [op |-> "get_term_history", args |-> <<term_id>>,
               val |-> get_term_history(change_history, term_id)]
    /\ UNCHANGED <<dictVars, kmVars, envVars, guiVars>>

AddCollaborator(user_id) ==
    /\ collaborators' = add_collaborator(collaborators, user_id, user_id, "Editor", now)
    /\ ret' = [op |-> "add_collaborator", args |-> <<user_id>>, val |-> "Ok"]
    /\ UNCHANGED <<dictVars, versions, edit_locks, change_history,
                   activity_log, review_requests, envVars, guiVars>>

UpdateCollaboratorActivity(user_id, activity) ==
    LET r == update_collaborator_activity(collaborators, activity_log, user_id,
                                          activity, now) IN
    /\ collaborators' = r.collaborators
    /\ activity_log' = r.activity_log
    /\ ret' = [op |-> "update_collaborator_activity", args |-> <<user_id, activity>>,
               val |-> "Ok"]
    /\ UNCHANGED <<dictVars, versions, edit_locks,
                   change_history, review_requests, envVars, guiVars>>

\* args is the Utc::now() the call read.
GetEditConflicts ==
    /\ ret' = [op |-> "get_edit_conflicts", args |-> <<now>>,
               val |-> get_edit_conflicts(edit_locks, activity_log, now)]
    /\ UNCHANGED <<dictVars, kmVars, envVars, guiVars>>

GetActiveCollaborators ==
    /\ ret' = [op |-> "get_active_collaborators", args |-> <<now>>,
               val |-> get_active_collaborators(collaborators, now)]
    /\ UNCHANGED <<dictVars, kmVars, envVars, guiVars>>

\* request_id is a version 4 UUID, 122 random bits: the model draws it among
\* the ids no request has.
CreateReviewRequest(request_id, term_id, requested_by, reviewers) ==
    LET r == create_review_request(review_requests, request_id, term_id,
                                   requested_by, reviewers, now) IN
    /\ request_id \notin DOMAIN review_requests
    /\ review_requests' = r.review_requests
    /\ ret' = [op |-> "create_review_request", args |-> <<term_id, requested_by>>,
               val |-> r.val]
    /\ UNCHANGED <<dictVars, versions, edit_locks, change_history, collaborators,
                   activity_log, envVars, guiVars>>

AddReviewComment(request_id, author, content) ==
    LET r == add_review_comment(review_requests, request_id, author, content, None, now) IN
    /\ request_id \in DOMAIN review_requests =>
            Len(review_requests[request_id].comments) < MaxComments
    /\ review_requests' = r.review_requests
    /\ ret' = [op |-> "add_review_comment", args |-> <<request_id, author>>, val |-> r.val]
    /\ UNCHANGED <<dictVars, versions, edit_locks, change_history, collaborators,
                   activity_log, envVars, guiVars>>

UpdateReviewStatus(request_id, status) ==
    LET r == update_review_status(review_requests, request_id, status) IN
    /\ review_requests' = r.review_requests
    /\ ret' = [op |-> "update_review_status", args |-> <<request_id, status>>, val |-> r.val]
    /\ UNCHANGED <<dictVars, versions, edit_locks, change_history, collaborators,
                   activity_log, envVars, guiVars>>

\* The list of pending reviews: the button of a review opens its dialog.
SelectReview(t, request_id) ==
    /\ pc[t].at = "idle"
    /\ mutex["knowledge_manager"] = None
    /\ request_id \in get_pending_reviews(review_requests, CurrentUser)
    /\ pc' = [pc EXCEPT ![t].show_review_dialog = TRUE, ![t].selected_review = request_id]
    /\ UNCHANGED <<dictVars, kmVars, envVars, mutex, ret>>

\* show_review_dialog_window: self.knowledge_manager.lock(), held until the
\* window has been drawn.
ReviewDialogLockManager(t) ==
    /\ pc[t].at = "idle"
    /\ pc[t].show_review_dialog
    /\ mutex["knowledge_manager"] = None
    /\ mutex' = [mutex EXCEPT !["knowledge_manager"] = t]
    /\ pc' = [pc EXCEPT ![t].at = "review_manager_locked"]
    /\ UNCHANGED <<dictVars, kmVars, envVars, ret>>

\* The request is there: self.technical_dictionary.lock() to show its term.
ReviewDialogLockDictionary(t) ==
    /\ pc[t].at = "review_manager_locked"
    /\ get_review_request(review_requests, pc[t].selected_review)
    /\ mutex["technical_dictionary"] = None
    /\ mutex' = [mutex EXCEPT !["technical_dictionary"] = t]
    /\ pc' = [pc EXCEPT ![t].at = "review_dictionary_locked"]
    /\ UNCHANGED <<dictVars, kmVars, envVars, ret>>

\* The term is shown and the guard of the dictionary dropped.
ReviewDialogShowTerm(t) ==
    /\ pc[t].at = "review_dictionary_locked"
    /\ mutex' = [mutex EXCEPT !["technical_dictionary"] = None]
    /\ pc' = [pc EXCEPT ![t].at = "review_shown"]
    /\ UNCHANGED <<dictVars, kmVars, envVars, ret>>

\* A button that changes the request is clicked (send comment, approve,
\* reject, needs changes): self.knowledge_manager.lock() again, under the
\* guard taken when the window opened. The call of the manager that follows
\* the lock() is never reached.
ReviewDialogClick(t, button, outcome) ==
    /\ pc[t].at = "review_shown"
    /\ mutex["knowledge_manager"] = t
    /\ pc' = [pc EXCEPT ![t].at = outcome]
    /\ mutex' = IF outcome = "panicked"
                 THEN [mutex EXCEPT !["knowledge_manager"] = None]
                 ELSE mutex
    /\ ret' = [op |-> button, args |-> <<pc[t].selected_review>>, val |-> outcome]
    /\ UNCHANGED <<dictVars, kmVars, envVars>>

\* No such button is clicked in this frame, or the close button is: the
\* guard of the manager is dropped at the end of the window.
ReviewDialogEnd(t, close) ==
    /\ pc[t].at = "review_shown"
    /\ mutex' = [mutex EXCEPT !["knowledge_manager"] = None]
    /\ pc' = [pc EXCEPT ![t].at = "idle",
                        ![t].show_review_dialog = ~close]
    /\ UNCHANGED <<dictVars, kmVars, envVars, ret>>

\* The create button of the version dialog: self.technical_dictionary.lock().
CreateVersionDialogLockDictionary(t) ==
    /\ pc[t].at = "idle"
    /\ mutex["technical_dictionary"] = None
    /\ mutex' = [mutex EXCEPT !["technical_dictionary"] = t]
    /\ pc' = [pc EXCEPT ![t].at = "version_dictionary_locked"]
    /\ UNCHANGED <<dictVars, kmVars, envVars, ret>>

\* Then self.knowledge_manager.lock().
CreateVersionDialogLockManager(t) ==
    /\ pc[t].at = "version_dictionary_locked"
    /\ mutex["knowledge_manager"] = None
    /\ mutex' = [mutex EXCEPT !["knowledge_manager"] = t]
    /\ pc' = [pc EXCEPT ![t].at = "version_manager_locked"]
    /\ UNCHANGED <<dictVars, kmVars, envVars, ret>>

\* create_version under both guards, which are then dropped.
CreateVersionDialogCreate(t, version_id, created_by, description) ==
    LET r == create_version(versions, Dict, version_id, created_by, description, now) IN
    /\ pc[t].at = "version_manager_locked"
    /\ versions' = r.versions
    /\ mutex' = [m \in Mutexes |-> None]
    /\ pc' = [pc EXCEPT ![t].at = "idle"]
    /\ ret' = [op |-> "create_version", args |-> <<version_id, created_by, description>>,
               val |-> r.val]
    /\ UNCHANGED <<dictVars, edit_locks, change_history, collaborators,
                   activity_log, review_requests, envVars>>

Translate(text, source_lang, order) ==
    /\ ret' = [op |-> "translate", args |-> <<text, source_lang>>,
               val |-> translate(Dict, text, source_lang, order)]
    /\ UNCHANGED <<dictVars, kmVars, envVars, guiVars>>

\* The orders a HashMap may yield the terms of a stored version in.
VersionOrders(version_id) ==
    IF version_id \in DOMAIN versions
    THEN Orders(DOMAIN versions[version_id].terms)
    ELSE {<<>>}

\* merge_dictionaries(&mut dictionary, other_dict), other being the terms of
\* other_dict.
MergeDictionaries(other, order, fail_at) ==
    LET r == merge_dictionaries(Dict, other, order, now, fail_at) IN
    /\ terms' = r.dict.terms
    /\ category_index' = r.dict.category_index
    /\ context_index' = r.dict.context_index
    /\ tag_index' = r.dict.tag_index
    /\ file' = r.dict.file
    /\ save_failures' = IF r.res = "Err" THEN save_failures + 1 ELSE save_failures
    /\ ret' = [op |-> "merge_dictionaries", args |-> <<other>>,
               val |-> [res |-> r.res, report |-> r.report]]
    /\ UNCHANGED <<kmVars, now, guiVars>>

\* The iterations of a merge in which the write of the file may fail.
FailPoints(n) == IF save_failures < MaxSaveFailures THEN 0..n ELSE {0}

Tick(limit) ==
    /\ now < limit
    /\ now' = now + TickMinutes
    /\ UNCHANGED <<dictVars, kmVars, save_failures, guiVars, ret>>

\* ---------------------------------------------------------- specifications
\* add_term / update_term / delete_term alone.
NextCrud ==
    \/ \E term \in TermInputs, io \in SaveOutcomes : AddTerm(term, io)
    \/ \E hebrew \in Keys, updates \in TermInputs, io \in SaveOutcomes :
          UpdateTerm(hebrew, updates, io)
    \/ \E hebrew \in Keys, io \in SaveOutcomes : DeleteTerm(hebrew, io)
    \/ Tick(MaxNow)

SpecCrud == Init /\ [][NextCrud]_vars

\* add_term with terms that lack a text.
NextUnchecked ==
    \/ \E term \in UncheckedTermInputs, io \in SaveOutcomes : AddTerm(term, io)
    \/ \E hebrew \in {HebA, HebB, <<>>}, io \in SaveOutcomes : DeleteTerm(hebrew, io)
    \/ Tick(MaxNow)

SpecUnchecked == Init /\ [][NextUnchecked]_vars

\* Every mutation of the dictionary.
NextDict ==
    \/ \E term \in TermInputs, io \in SaveOutcomes : AddTerm(term, io)
    \/ \E hebrew \in Keys, updates \in TermInputs, io \in SaveOutcomes :
          UpdateTerm(hebrew, updates, io)
    \/ \E hebrew \in Keys, io \in SaveOutcomes : DeleteTerm(hebrew, io)
    \/ \E ts \in InputMaps, io \in SaveOutcomes : ImportTerms(ts, io)
    \/ \E other \in InputMaps, io \in SaveOutcomes : MergeWith(other, io)
    \/ \E snapshot \in InputMaps, io \in SaveOutcomes : RestoreSnapshot(snapshot, io)
    \/ Tick(MaxNow)

SpecDict == Init /\ [][NextDict]_vars

\* search over a dictionary that is being edited.
NextSearch ==
    \/ \E term \in SearchTermInputs : AddTerm(term, TRUE)
    \/ \E updates \in SearchTermInputs : UpdateTerm(HebA, updates, TRUE)
    \/ \E hebrew \in SearchKeys : DeleteTerm(hebrew, TRUE)
    \/ \E query \in Queries : \E order \in Orders(Range(terms)) : Search(query, order)

SpecSearch == Init /\ [][NextSearch]_vars

\* The dictionary being edited while changes are recorded and read.
NextLedger ==
    \/ \E term \in LedgerTermInputs : AddTerm(term, TRUE)
    \/ \E hebrew \in Keys, updates \in LedgerTermInputs : UpdateTerm(hebrew, updates, TRUE)
    \/ \E hebrew \in Keys : DeleteTerm(hebrew, TRUE)
    \/ \E term_id \in Keys, c \in ChangeInputs : TrackChange(term_id, "u1", c)
    \/ \E term_id \in Keys : GetTermHistory(term_id)

SpecLedger == Init /\ [][NextLedger]_vars

\* Collaborators reporting what they do, a term being locked, and the
\* conflicts being asked for.
NextActivity ==
    \/ \E user_id \in Registrants : AddCollaborator(user_id)
    \/ /\ Len(activity_log) < MaxActivities
       /\ \E user_id \in Users : \E activity \in ActivityInputs(now) :
              UpdateCollaboratorActivity(user_id, activity)
    \/ AcquireEditLock(HebA, "u1")
    \/ GetEditConflicts
    \/ Tick(MaxNow)

SpecActivity == Init /\ [][NextActivity]_vars

\* Reports of edits by a collaborator and by a user who never registers.
NextUnregistered ==
    \/ AddCollaborator("u1")
    \/ /\ Len(activity_log) < MaxActivities
       /\ \E user_id \in {"u1", "u3"} : \E activity \in EditingInputs(now) :
              UpdateCollaboratorActivity(user_id, activity)
    \/ AcquireEditLock(HebA, "u1")
    \/ GetEditConflicts
    \/ GetActiveCollaborators
    \/ Tick(MaxNow)

SpecUnregistered == Init /\ [][NextUnregistered]_vars

\* What "u1" has reported before the log is looked at: an export, then a
\* comparison, then reviews, all in the first minute, two fewer than the log
\* can hold. The front of the log, the latest review, is first.
ReportedBefore ==
    [i \in 1..(ActivityLogCapacity - 2) |->
        MkActivity(CASE i = ActivityLogCapacity - 2 -> "Exporting"
                     [] i = ActivityLogCapacity - 3 -> "Comparing"
                     [] OTHER -> "Reviewing",
                   NoTermId, 0)]

\* The state after add_collaborator("u1") and those reports.
InitFullLog ==
    /\ terms = EmptyMap
    /\ category_index = EmptyMap
    /\ context_index = EmptyMap
    /\ tag_index = EmptyMap
    /\ file = [exists |-> FALSE, content |-> EmptyMap]
    /\ versions = EmptyMap
    /\ edit_locks = EmptyMap
    /\ change_history = EmptyMap
    /\ collaborators =
          [u \in {"u1"} |->
              [user_id |-> "u1", name |-> "u1", role |-> "Editor", last_active |-> 0,
               current_activity |-> SomeActivity(ReportedBefore[1]),
               edit_history |-> <<>>]]
    /\ activity_log = ReportedBefore
    /\ review_requests = EmptyMap
    /\ pc = [t \in Threads |-> Idle]
    /\ mutex = [m \in Mutexes |-> None]
    /\ now = 0
    /\ save_failures = 0
    /\ ret = [op |-> "update_collaborator_activity",
              args |-> <<"u1", ReportedBefore[1]>>, val |-> "Ok"]

\* The places of the log that hold an Editing activity.
EditingEntries(log) == {i \in DOMAIN log : log[i].activity_type = "Editing"}

\* Collaborators reporting edits when the log is nearly full; the reports
\* before were of no edit, so the edits in the log are those reported since.
NextFullLog ==
    \/ \E user_id \in Registrants : AddCollaborator(user_id)
    \/ /\ Cardinality(EditingEntries(activity_log)) < MaxFullLogPushes
       /\ \E user_id \in Users : \E activity \in EditingInputs(now) :
              UpdateCollaboratorActivity(user_id, activity)

SpecFullLog == InitFullLog /\ [][NextFullLog]_vars

\* The review workflow.
NextReview ==
    \/ \E request_id \in RequestIds :
          CreateReviewRequest(request_id, HebA, "u1", <<"u2">>)
    \/ \E request_id \in RequestIds, author \in {"u1", "u2"} :
          AddReviewComment(request_id, author, "c")
    \/ \E request_id \in RequestIds, status \in ReviewStatuses :
          UpdateReviewStatus(request_id, status)

SpecReview == Init /\ [][NextReview]_vars

\* The dialogs that take the two mutexes, and requests for review made
\* through the manager while no dialog holds it.
NextGui ==
    \/ \E request_id \in RequestIds :
          /\ mutex["knowledge_manager"] = None
          /\ CreateReviewRequest(request_id, HebA, "u1", <<CurrentUser>>)
    \/ \E t \in Threads, request_id \in RequestIds : SelectReview(t, request_id)
    \/ \E t \in Threads : ReviewDialogLockManager(t)
    \/ \E t \in Threads : ReviewDialogLockDictionary(t)
    \/ \E t \in Threads : ReviewDialogShowTerm(t)
    \/ \E t \in Threads, button \in {"add_review_comment", "update_review_status"},
          outcome \in RelockOutcomes : ReviewDialogClick(t, button, outcome)
    \/ \E t \in Threads, close \in BOOLEAN : ReviewDialogEnd(t, close)
    \/ \E t \in Threads : CreateVersionDialogLockDictionary(t)
    \/ \E t \in Threads : CreateVersionDialogLockManager(t)
    \/ \E t \in Threads, version_id \in VersionIds, created_by \in Authors,
          description \in Descriptions :
            CreateVersionDialogCreate(t, version_id, created_by, description)

SpecGui == Init /\ [][NextGui]_vars

\* translate over a dictionary that is being edited.
NextTranslate ==
    \/ \E term \in TranslateTermInputs : AddTerm(term, TRUE)
    \/ \E hebrew \in {t.hebrew : t \in TranslateTermInputs} : DeleteTerm(hebrew, TRUE)
    \/ \E text \in TranslateTexts, source_lang \in TranslateLangs :
          \E order \in Orders(DOMAIN terms) : Translate(text, source_lang, order)

SpecTranslate == Init /\ [][NextTranslate]_vars

\* The lock manager.
NextLock ==
    \/ \E term_id \in Keys, user_id \in Users : AcquireEditLock(term_id, user_id)
    \/ \E term_id \in Keys, user_id \in Users : ReleaseEditLock(term_id, user_id)
    \/ Tick(MaxNow)

SpecLock == Init /\ [][NextLock]_vars

\* The version store over a dictionary that is being edited.
NextVersion ==
    \/ \E term \in VersionTermInputs : AddTerm(term, TRUE)
    \/ \E updates \in VersionTermInputs : UpdateTerm(HebA, updates, TRUE)
    \/ \E hebrew \in Keys : DeleteTerm(hebrew, TRUE)
    \/ \E ts \in VersionInputMaps : ImportTerms(ts, TRUE)
    \/ \E other \in VersionInputMaps : MergeWith(other, TRUE)
    \/ \E version_id \in VersionIds, created_by \in Authors, description \in Descriptions :
          CreateVersion(version_id, created_by, description)
    \/ \E version1_id \in VersionIds, version2_id \in VersionIds :
          \E order2 \in VersionOrders(version2_id), order1 \in VersionOrders(version1_id) :
              CompareVersions(version1_id, version2_id, order2, order1)
    \/ Tick(MaxVersionNow)

SpecVersion == Init /\ [][NextVersion]_vars

\* merge_dictionaries into a dictionary that is being edited.
NextMerge ==
    \/ \E term \in TermInputs, io \in SaveOutcomes : AddTerm(term, io)
    \/ \E hebrew \in Keys, updates \in TermInputs, io \in SaveOutcomes :
          UpdateTerm(hebrew, updates, io)
    \/ \E hebrew \in Keys, io \in SaveOutcomes : DeleteTerm(hebrew, io)
    \/ \E other \in InputMaps :
          \E order \in Orders(DOMAIN other), fail_at \in FailPoints(Cardinality(DOMAIN other)) :
              MergeDictionaries(other, order, fail_at)
    \/ Tick(MaxNow)

SpecMerge == Init /\ [][NextMerge]_vars

\* ------------------------------------------------------------------ claims
IndexGet(idx, c) == IF c \in DOMAIN idx THEN idx[c] ELSE {}

\* C1: after any sequence of mutations of the dictionary (add, update, delete,
\* import, merge, restore) each of the three indices holds, for every category
\* (context, tag), exactly the keys whose term has that category (context,
\* tag): no stale key, no missing key, no entry for a value no term has.
C1_IndicesReflectTerms ==
    /\ \A c \in Categories \cup DOMAIN category_index :
          IndexGet(category_index, c) = {k \in DOMAIN terms : terms[k].category = c}
    /\ \A c \in Contexts \cup DOMAIN context_index :
          IndexGet(context_index, c) = {k \in DOMAIN terms : terms[k].context = c}
    /\ \A g \in Tags \cup DOMAIN tag_index :
          IndexGet(tag_index, g) = {k \in DOMAIN terms : g \in terms[k].tags}
    /\ None \notin DOMAIN category_index
    /\ None \notin DOMAIN context_index

\* C1's case: update_term just replaced one of two stored terms; a tag is
\* shared by both keys and a category no term has any more is not indexed.
C1_Witness ==
    /\ ret.op = "update_term"
    /\ Cardinality(DOMAIN terms) = 2
    /\ \E g \in DOMAIN tag_index : Cardinality(tag_index[g]) = 2
    /\ \E c \in Categories : c \notin DOMAIN category_index
    /\ DOMAIN category_index # {}

\* C2: every entry of the term map is stored under the key equal to its own
\* hebrew field, whatever add_term / update_term / delete_term calls were made.
C2_KeyIsHebrew == \A k \in DOMAIN terms : terms[k].hebrew = k

\* C3: acquire_edit_lock on a term that holds an unexpired lock returns false
\* and leaves the lock table as it is; on a term with no lock, or whose lock
\* has expired (30 minutes after it was taken), it returns true and the caller
\* is the holder of a lock that expires 30 minutes from now.
C3_AcquireExclusive ==
    [][\A term_id \in Keys, user_id \in Users :
        (ret'.op = "acquire_edit_lock" /\ AcquireEditLock(term_id, user_id)) =>
            IF term_id \in DOMAIN edit_locks /\ edit_locks[term_id].expires_at > now
            THEN ret'.val = FALSE /\ edit_locks' = edit_locks
            ELSE /\ ret'.val = TRUE
                 /\ DOMAIN edit_locks' = (DOMAIN edit_locks) \cup {term_id}
                 /\ edit_locks'[term_id].locked_by = user_id
                 /\ edit_locks'[term_id].expires_at = now + LockTTLMinutes
                 /\ \A o \in (DOMAIN edit_locks) \ {term_id} :
                        edit_locks'[o] = edit_locks[o]]_vars

\* C3's case: a second user was just refused while the first user's lock,
\* taken earlier and not yet expired, is still in place.
C3_Witness ==
    /\ ret.op = "acquire_edit_lock"
    /\ ret.val = FALSE
    /\ ret.args[1] \in DOMAIN edit_locks
    /\ edit_locks[ret.args[1]].locked_by # ret.args[2]
    /\ edit_locks[ret.args[1]].locked_at < now
    /\ edit_locks[ret.args[1]].expires_at > now

\* C4: release_edit_lock by a user who is not the holder returns false and
\* leaves the lock table as it is; and no step changes or removes an unexpired
\* lock other than a release by its holder.
C4_NonHolderCannotRelease ==
    [][/\ \A term_id \in Keys, user_id \in Users :
            (/\ ret'.op = "release_edit_lock"
             /\ ReleaseEditLock(term_id, user_id)
             /\ ~(term_id \in DOMAIN edit_locks
                  /\ edit_locks[term_id].locked_by = user_id))
            => (ret'.val = FALSE /\ edit_locks' = edit_locks)
       /\ \A term_id \in DOMAIN edit_locks :
            edit_locks[term_id].expires_at > now =>
                \/ (term_id \in DOMAIN edit_locks'
                    /\ edit_locks'[term_id] = edit_locks[term_id])
                \/ (ret'.op = "release_edit_lock"
                    /\ ReleaseEditLock(term_id, edit_locks[term_id].locked_by))]_vars

\* C4's case: a non-holder just tried to release an unexpired lock.
C4_Witness ==
    /\ ret.op = "release_edit_lock"
    /\ ret.val = FALSE
    /\ ret.args[1] \in DOMAIN edit_locks
    /\ edit_locks[ret.args[1]].locked_by # ret.args[2]
    /\ edit_locks[ret.args[1]].expires_at > now

\* C5: release_edit_lock returns true only when the caller is the holder of a
\* lock on the term that has not expired.
C5_ReleaseOnlyUnexpired ==
    [][\A term_id \in Keys, user_id \in Users :
        (/\ ret'.op = "release_edit_lock"
         /\ ReleaseEditLock(term_id, user_id)
         /\ ret'.val = TRUE) =>
            /\ term_id \in DOMAIN edit_locks
            /\ edit_locks[term_id].locked_by = user_id
            /\ edit_locks[term_id].expires_at > now]_vars

DictOps ==
    {"add_term", "update_term", "delete_term", "import_terms", "merge_with",
     "restore_snapshot"}

\* C6: create_version with a version_id that is already in the store returns
\* an error and leaves the store as it is.
C6_DuplicateVersionRejected ==
    [][\A version_id \in VersionIds, created_by \in Authors, description \in Descriptions :
        (/\ ret'.op = "create_version"
         /\ CreateVersion(version_id, created_by, description)
         /\ version_id \in DOMAIN versions)
        => (ret'.val = "Err" /\ versions' = versions)]_vars

\* C7: a step that changes the dictionary (its term map, indices or file)
\* leaves every stored version exactly as it is, and no step takes a version
\* id out of the store.
C7_VersionsAreCopies ==
    [][/\ (dictVars' # dictVars) => (versions' = versions)
       /\ (DOMAIN versions) \subseteq (DOMAIN versions')]_vars

\* C7's case: the dictionary was just mutated and a stored version still holds
\* terms the dictionary no longer has.
C7_Witness ==
    /\ ret.op \in DictOps
    /\ \E v \in DOMAIN versions :
          /\ versions[v].terms # terms
          /\ versions[v].terms # EmptyMap
          /\ versions[v].tags # get_all_tags_set(Dict)

\* How many entries of the sequence s equal x.
Count(s, x) == Cardinality({i \in DOMAIN s : s[i] = x})

\* C8: the report of compare_versions(a, b) on two stored versions lists in
\* added exactly the terms of b stored under a key a does not have, in updated
\* exactly the terms of b stored under a key of both whose terms differ, and
\* in conflicting exactly the pairs under a key of both whose last_updated are
\* equal and whose terms differ: one entry per such key, and nothing else.
C8_CompareReport ==
    (ret.op = "compare_versions" /\ ret.val.some) =>
        LET a == versions[ret.args[1]].terms
            b == versions[ret.args[2]].terms
            both == (DOMAIN a) \cap (DOMAIN b)
            r == ret.val
        IN  /\ \A x \in Range(r.added_terms) \cup Range(b) :
                  Count(r.added_terms, x)
                      = Cardinality({k \in (DOMAIN b) \ (DOMAIN a) : b[k] = x})
            /\ \A x \in Range(r.updated_terms) \cup Range(b) :
                  Count(r.updated_terms, x)
                      = Cardinality({k \in both : a[k] # b[k] /\ b[k] = x})
            /\ \A p \in Range(r.conflicting_terms) \cup {<<a[k], b[k]>> : k \in both} :
                  Count(r.conflicting_terms, p)
                      = Cardinality({k \in both :
                            /\ a[k].last_updated = b[k].last_updated
                            /\ a[k] # b[k]
                            /\ <<a[k], b[k]>> = p})

\* C8's case: a comparison that reported an added term, an updated term and a
\* conflicting pair while a key of both versions held equal terms or terms
\* with different timestamps.
C8_Witness ==
    /\ ret.op = "compare_versions"
    /\ ret.val.some
    /\ Len(ret.val.added_terms) = 1
    /\ Len(ret.val.updated_terms) = 1
    /\ Len(ret.val.conflicting_terms) = 1

\* C8's second case: an updated term that is not a conflict.
C8_WitnessNoConflict ==
    /\ ret.op = "compare_versions"
    /\ ret.val.some
    /\ Len(ret.val.updated_terms) = 1
    /\ Len(ret.val.conflicting_terms) = 0

HebrewOf(s) == {s[i].hebrew : i \in DOMAIN s}

\* C9: the keys of the terms compare_versions(a, b) reports as added are the
\* keys present in b and absent from a, and none of them is a key of a term
\* compare_versions(b, a) reports as added.
C9_AddedAntisymmetric ==
    (ret.op = "compare_versions" /\ ret.val.some) =>
        LET a == versions[ret.args[1]].terms
            b == versions[ret.args[2]].terms
            back == compare_versions(versions, ret.args[2], ret.args[1],
                        CHOOSE o \in Orders(DOMAIN a) : TRUE,
                        CHOOSE o \in Orders(DOMAIN b) : TRUE, now)
        IN  /\ HebrewOf(ret.val.added_terms) = (DOMAIN b) \ (DOMAIN a)
            /\ HebrewOf(ret.val.added_terms) \cap HebrewOf(back.added_terms) = {}

\* Equal in every field but last_updated.
SameContent(x, y) == Stamp(x, 0) = Stamp(y, 0)

\* C10: a merge_dictionaries(base, other) that returns a report has, for every
\* key of other: added other's term to base under that key and reported it as
\* added when base had no such key; replaced base's term by other's and
\* reported it as updated when base's was older; left base's term alone and
\* reported nothing when base's was newer; left base's term alone and reported
\* the pair as conflicting when the timestamps were equal. Every term of base
\* under a key other does not have is as it was.
C10_MergePolicy ==
    [][\A other \in InputMaps :
        \A order \in Orders(DOMAIN other), fail_at \in 0..Cardinality(DOMAIN other) :
        (/\ ret'.op = "merge_dictionaries"
         /\ MergeDictionaries(other, order, fail_at)
         /\ ret'.val.res = "Ok")
        =>
        LET report == ret'.val.report
            absent == (DOMAIN other) \ (DOMAIN terms)
            older == {k \in (DOMAIN other) \cap (DOMAIN terms) :
                         terms[k].last_updated < other[k].last_updated}
            equal == {k \in (DOMAIN other) \cap (DOMAIN terms) :
                         terms[k].last_updated = other[k].last_updated}
            kept == (DOMAIN terms) \ (absent \cup older)
        IN  /\ \A k \in absent \cup older :
                  k \in DOMAIN terms' /\ SameContent(terms'[k], other[k])
            /\ \A k \in kept : k \in DOMAIN terms' /\ terms'[k] = terms[k]
            /\ DOMAIN terms' = (DOMAIN terms) \cup (DOMAIN other)
            /\ Range(report.added_terms) = {other[k] : k \in absent}
            /\ Len(report.added_terms) = Cardinality(absent)
            /\ Range(report.updated_terms) = {other[k] : k \in older}
            /\ Len(report.updated_terms) = Cardinality(older)
            /\ Range(report.conflicting_terms) = {<<terms[k], other[k]>> : k \in equal}
            /\ Len(report.conflicting_terms) = Cardinality(equal)]_vars

\* The term map and the three indices are as they were before the step.
TermsAndIndicesUnchanged ==
    UNCHANGED <<terms, category_index, context_index, tag_index>>

\* C11 (as stated): update_term and delete_term with a hebrew key the term map
\* does not hold return success and leave the term map and the three indices
\* exactly as they were.
C11_UnknownKeyNoOp ==
    [][/\ \A hebrew \in Keys, updates \in TermInputs, io \in BOOLEAN :
            (ret'.op = "update_term" /\ hebrew \notin DOMAIN terms
                /\ UpdateTerm(hebrew, updates, io)) =>
                    (ret'.val = "Ok" /\ TermsAndIndicesUnchanged)
       /\ \A hebrew \in Keys, io \in BOOLEAN :
            (ret'.op = "delete_term" /\ hebrew \notin DOMAIN terms
                /\ DeleteTerm(hebrew, io)) =>
                    (ret'.val = "Ok" /\ TermsAndIndicesUnchanged)]_vars

\* C11 (amended): update_term with a key the term map does not hold returns
\* success and changes nothing at all; delete_term with such a key leaves the
\* term map and the three indices as they were, but still writes the file and
\* returns what the write returned: success, or the error of a failed write.
C11_UnknownKeyNoOpUnlessWriteFails ==
    [][/\ \A hebrew \in Keys, updates \in TermInputs, io \in BOOLEAN :
            (ret'.op = "update_term" /\ hebrew \notin DOMAIN terms
                /\ UpdateTerm(hebrew, updates, io)) =>
                    (ret'.val = "Ok" /\ UNCHANGED dictVars)
       /\ \A hebrew \in Keys, io \in BOOLEAN :
            (ret'.op = "delete_term" /\ hebrew \notin DOMAIN terms
                /\ DeleteTerm(hebrew, io)) =>
                    /\ ret'.val = (IF io THEN "Ok" ELSE "Err")
                    /\ TermsAndIndicesUnchanged
                    /\ io => file' = [exists |-> TRUE, content |-> ToJson(terms)]]_vars

\* delete_term of a key the map did not hold has failed in its write: no write
\* failed before, so the file still holds the map of before the call, and the
\* map is that map.
C11_Witness ==
    /\ ret.op = "delete_term"
    /\ ret.val = "Err"
    /\ save_failures = 1
    /\ ret.args[1] \notin DOMAIN terms
    /\ terms # EmptyMap
    /\ file = [exists |-> TRUE, content |-> ToJson(terms)]

\* The field of a term, and its synonyms, that a query in lang is matched against.
PrimaryField(term, lang) == IF lang = "he" THEN term.hebrew ELSE term.russian

SynonymsOf(term, lang) ==
    Range(IF lang = "he" THEN term.synonyms_he ELSE term.synonyms_ru)

\* text equals q_text (exact) or has q_text as a substring, letter for letter.
TextHit(text, q_text, exact) ==
    IF exact
    THEN text = q_text
    ELSE \E i \in 0..Len(text) : \E j \in i..Len(text) : SubSeq(text, i + 1, j) = q_text

\* The capital and the small form of each letter that has both.
CasePairs == {<<"X", "x">>, <<"Y", "y">>}

EqualIgnoringCase(a, b) ==
    /\ Len(a) = Len(b)
    /\ \A i \in 1..Len(a) :
          a[i] = b[i] \/ <<a[i], b[i]>> \in CasePairs \/ <<b[i], a[i]>> \in CasePairs

\* The same as TextHit, but a capital and its small letter count as equal.
TextHitIgnoringCase(text, q_text, exact) ==
    IF exact
    THEN EqualIgnoringCase(text, q_text)
    ELSE \E i \in 0..Len(text) : \E j \in i..Len(text) :
            EqualIgnoringCase(SubSeq(text, i + 1, j), q_text)

\* term matches q by its primary field, or through a synonym when q asks for
\* synonyms, letter for letter.
MatchesExactCase(term, q) ==
    \/ TextHit(PrimaryField(term, q.lang), q.text, q.exact_match)
    \/ /\ q.include_synonyms
       /\ \E s \in SynonymsOf(term, q.lang) : TextHit(s, q.text, q.exact_match)

MatchesIgnoringCase(term, q) ==
    \/ TextHitIgnoringCase(PrimaryField(term, q.lang), q.text, q.exact_match)
    \/ /\ q.include_synonyms
       /\ \E s \in SynonymsOf(term, q.lang) :
              TextHitIgnoringCase(s, q.text, q.exact_match)

NoFilter(q) == ~q.categories.some /\ ~q.contexts.some /\ ~q.tags.some

\* C12 (as stated): a search in "he" or "ru" with no category, context or tag
\* filter returns exactly the terms whose field of that language equals the
\* query text (exact_match) or contains it, and with include_synonyms also the
\* terms with a synonym of that language that does; without include_synonyms
\* a term that matches through a synonym only is not returned.
C12_SearchByText ==
    ret.op = "search" =>
        LET q == ret.args[1] IN
        (NoFilter(q) /\ q.lang \in {"he", "ru"}) =>
            Range(ret.val) = {term \in Range(terms) : MatchesExactCase(term, q)}

\* C12 (amended): the same, with the texts compared after both are put in
\* lower case: a capital and its small letter count as equal.
C12_SearchByTextIgnoringCase ==
    ret.op = "search" =>
        LET q == ret.args[1] IN
        (NoFilter(q) /\ q.lang \in {"he", "ru"}) =>
            Range(ret.val) = {term \in Range(terms) : MatchesIgnoringCase(term, q)}

\* A search with synonyms has returned three terms, one of them through a
\* synonym only, and the same search without synonyms would not return it.
C12_Witness ==
    /\ ret.op = "search"
    /\ NoFilter(ret.args[1])
    /\ ret.args[1].include_synonyms
    /\ Len(ret.val) = 3
    /\ \E term \in Range(ret.val) :
          ~MatchesIgnoringCase(term, [ret.args[1] EXCEPT !.include_synonyms = FALSE])

\* C13 (as stated): matching is case-sensitive: a term that matches the query
\* only if capitals and small letters are taken as equal is not returned, in
\* exact and in substring mode.
C13_CaseSensitive ==
    ret.op = "search" =>
        \A term \in Range(terms) :
            ~MatchesExactCase(term, ret.args[1]) => term \notin Range(ret.val)

\* C13 (amended): matching is not case-sensitive: both texts are put in lower
\* case first, so a term whose field or synonym differs from the query in the
\* case of letters only is returned, in exact and in substring mode (when no
\* filter removes it).
C13_CaseInsensitive ==
    ret.op = "search" =>
        LET q == ret.args[1] IN
        \A term \in Range(terms) :
            (/\ NoFilter(q) /\ q.lang \in {"he", "ru"}
             /\ ~MatchesExactCase(term, q)
             /\ MatchesIgnoringCase(term, q)) => term \in Range(ret.val)

\* An exact search has returned a term that differs from the query in case.
C13_Witness ==
    /\ ret.op = "search"
    /\ ret.args[1].exact_match
    /\ \E term \in Range(ret.val) :
          /\ ~MatchesExactCase(term, ret.args[1])
          /\ EqualIgnoringCase(PrimaryField(term, ret.args[1].lang), ret.args[1].text)

\* What the query q returns when its three filters are taken away.
Unfiltered(q) ==
    Range(search(Dict, [q EXCEPT !.categories = NoneVec, !.contexts = NoneVec,
                                 !.tags = NoneVec],
                 SetToSeq(Range(terms))))

\* C14: of the terms that match the text, the category filter keeps those
\* that have a category and it is one of the requested ones, the context
\* filter likewise, and the tag filter keeps those whose tags contain every
\* requested tag.
C14_Filters ==
    ret.op = "search" =>
        LET q == ret.args[1] IN
        Range(ret.val) =
            {term \in Unfiltered(q) :
                /\ q.categories.some =>
                      (term.category # None
                        /\ \E i \in DOMAIN q.categories.vec : q.categories.vec[i] = term.category)
                /\ q.contexts.some =>
                      (term.context # None
                        /\ \E i \in DOMAIN q.contexts.vec : q.contexts.vec[i] = term.context)
                /\ q.tags.some => Range(q.tags.vec) \subseteq term.tags}

\* A search for two tags has returned a term and has dropped one that has one
\* of the two tags only.
C14_Witness ==
    /\ ret.op = "search"
    /\ ret.args[1].tags.some
    /\ Len(ret.args[1].tags.vec) = 2
    /\ ret.val # <<>>
    /\ \E term \in Unfiltered(ret.args[1]) :
          /\ term \notin Range(ret.val)
          /\ term.tags \cap Range(ret.args[1].tags.vec) # {}

\* A search with a category filter has dropped a term that has no category.
C14_WitnessNoCategory ==
    /\ ret.op = "search"
    /\ ret.args[1].categories.some
    /\ ret.val # <<>>
    /\ \E term \in Unfiltered(ret.args[1]) :
          term \notin Range(ret.val) /\ term.category = None

\* v is in ascending order of the field of lang.
SortedByField(v, lang) ==
    \A i, j \in DOMAIN v :
        i < j => ~Less(PrimaryField(v[j], lang), PrimaryField(v[i], lang))

NoDuplicates(v) == \A i, j \in DOMAIN v : v[i] = v[j] => i = j

\* C15 (as stated, what it says of the results): search returns its results in
\* ascending order of the field the query was matched against (hebrew for
\* "he", russian for "ru"), without duplicates.
C15_SortedByMatchedField ==
    ret.op = "search" =>
        /\ SortedByField(ret.val, ret.args[1].lang)
        /\ NoDuplicates(ret.val)

\* C15 (amended): search returns its results in ascending order of their
\* hebrew field whatever the language of the query, without duplicates, and
\* changes neither the term map nor the indices.
C15_SortedByHebrew ==
    /\ [](ret.op = "search" =>
            (SortedByField(ret.val, "he") /\ NoDuplicates(ret.val)))
    /\ [][ret'.op = "search" => UNCHANGED dictVars]_vars

\* A search in "ru" has returned terms in the order of their hebrew fields,
\* which is not the order of their russian fields.
C15_Witness ==
    /\ ret.op = "search"
    /\ ret.args[1].lang = "ru"
    /\ Len(ret.val) >= 2
    /\ SortedByField(ret.val, "he")
    /\ ~SortedByField(ret.val, "ru")

\* The changes recorded for term_id, none if it has no history.
ChangesOf(ch, term_id) ==
    IF term_id \in DOMAIN ch THEN ch[term_id].changes ELSE <<>>

\* C16: every write of the term map appends to the change ledger: a term that
\* is in the map has an Addition entry in its history, and when add_term
\* (delete_term) has just returned success the last entry of the history of
\* its term is an Addition (a Deletion).
C16_WritesAreRecorded ==
    /\ \A k \in DOMAIN terms :
          \E i \in DOMAIN ChangesOf(change_history, k) :
              ChangesOf(change_history, k)[i].change_type = "Addition"
    /\ (ret.op = "add_term" /\ ret.val = "Ok") =>
          LET changes == ChangesOf(change_history, ret.args[1]) IN
          changes # <<>> /\ changes[Len(changes)].change_type = "Addition"
    /\ (ret.op = "delete_term" /\ ret.val = "Ok") =>
          LET changes == ChangesOf(change_history, ret.args[1]) IN
          changes # <<>> /\ changes[Len(changes)].change_type = "Deletion"

IsPrefix(s, t) == Len(s) <= Len(t) /\ SubSeq(t, 1, Len(s)) = s

\* C17: the change ledger is append-only and independent of the term map:
\* track_change adds one entry at the end of the history of its term and
\* leaves every other history as it is, no step shortens or alters a history
\* (the earlier history is a prefix of the later one), get_term_history
\* returns none exactly for a term that track_change was never called for,
\* and add_term, update_term and delete_term leave every history as it is.
C17_LedgerAppendOnly ==
    [][/\ \A k \in DOMAIN change_history :
            /\ k \in DOMAIN change_history'
            /\ IsPrefix(change_history[k].changes, change_history'[k].changes)
       /\ \A term_id \in Keys, c \in ChangeInputs :
            (ret'.op = "track_change" /\ TrackChange(term_id, "u1", c)) =>
                LET new == change_history'[term_id].changes IN
                /\ DOMAIN change_history' = (DOMAIN change_history) \cup {term_id}
                /\ Len(new) = Len(ChangesOf(change_history, term_id)) + 1
                /\ new[Len(new)] = c @@ [timestamp |-> now, changed_by |-> "u1"]
                /\ \A k \in DOMAIN change_history :
                        k # term_id => change_history'[k] = change_history[k]
       /\ ret'.op # "track_change" => change_history' = change_history
       /\ \A term_id \in Keys :
            (ret'.op = "get_term_history" /\ GetTermHistory(term_id)) =>
                /\ ret'.val.some <=> term_id \in DOMAIN change_history
                /\ ret'.val.changes = ChangesOf(change_history, term_id)]_vars

\* delete_term has just removed a term that has two recorded changes, and the
\* two are still in the ledger.
C17_Witness ==
    /\ ret.op = "delete_term"
    /\ ret.args[1] \notin DOMAIN terms
    /\ terms # EmptyMap
    /\ ret.args[1] \in DOMAIN change_history
    /\ Len(change_history[ret.args[1]].changes) = 2
    /\ change_history[ret.args[1]].changes[1].change_type = "Addition"
    /\ change_history[ret.args[1]].changes[2].change_type = "Modification"

\* C18: after an activity of a registered collaborator has been recorded, it
\* is the collaborator's current activity, it is in the global activity log
\* and it is in the collaborator's personal buffer (edit_history).
C18_ActivityInBothBuffers ==
    \A u \in DOMAIN collaborators :
        collaborators[u].current_activity.some =>
            /\ collaborators[u].current_activity.value \in Range(activity_log)
            /\ collaborators[u].edit_history # <<>>

\* C19: the global activity log never holds more than 1000 entries, and a
\* recorded activity goes to its front with the entries of before behind it
\* in the order they had, all of them when the log had room and all but the
\* oldest when it was full; nothing else changes the log, and an activity of
\* an unregistered user is not recorded.
C19_BoundedNewestFirst ==
    /\ [](Len(activity_log) <= 1000)
    /\ [][/\ \A user_id \in Users : \A activity \in EditingInputs(now) :
                (ret'.op = "update_collaborator_activity"
                    /\ UpdateCollaboratorActivity(user_id, activity)) =>
                    IF user_id \in DOMAIN collaborators
                    THEN /\ activity_log'[1] = activity
                         /\ Len(activity_log') =
                                (IF Len(activity_log) < 1000
                                 THEN Len(activity_log) + 1 ELSE 1000)
                         /\ \A i \in 2..Len(activity_log') :
                                activity_log'[i] = activity_log[i - 1]
                    ELSE activity_log' = activity_log
          /\ ret'.op # "update_collaborator_activity" =>
                activity_log' = activity_log]_vars

\* The log is full and has lost its two oldest entries, the export and the
\* comparison: its oldest entry is a review and its newest an edit.
C19_Witness ==
    /\ Len(activity_log) = 1000
    /\ activity_log[1000].activity_type = "Reviewing"
    /\ activity_log[1].activity_type = "Editing"
    /\ activity_log[2].activity_type = "Editing"
    /\ activity_log[1] # activity_log[2]

\* The Editing activities on term_id in the log that started less than 30
\* minutes before t.
RecentEdits(term_id, t) ==
    {i \in DOMAIN activity_log :
        /\ activity_log[i].activity_type = "Editing"
        /\ activity_log[i].term_id.some
        /\ activity_log[i].term_id.value = term_id
        /\ t - activity_log[i].started_at < 30}

C20_WitnessWindowOver ==
    /\ ret.op = "get_edit_conflicts"
    /\ ret.args[1] = now
    /\ ret.val = {}
    /\ HebA \in DOMAIN edit_locks
    /\ Cardinality({i \in DOMAIN activity_log :
            activity_log[i].term_id = SomeTermId(HebA)}) = 2

\* C21: a request made by create_review_request is Pending, has no comment
\* and has an id no request had; add_review_comment puts the comment at the
\* end of the comments of its request, whatever its status, and leaves the
\* status; the status of a request changes in update_review_status only,
\* which sets the status it is given whatever the status was.
C21_ReviewStateMachine ==
    [][/\ \A request_id \in RequestIds :
            (ret'.op = "create_review_request"
                /\ CreateReviewRequest(request_id, HebA, "u1", <<"u2">>)) =>
                /\ ret'.val = request_id
                /\ request_id \notin DOMAIN review_requests
                /\ DOMAIN review_requests' = (DOMAIN review_requests) \cup {request_id}
                /\ review_requests'[request_id].status = "Pending"
                /\ review_requests'[request_id].comments = <<>>
       /\ \A request_id \in DOMAIN review_requests, author \in {"u1", "u2"} :
            (ret'.op = "add_review_comment"
                /\ AddReviewComment(request_id, author, "c")) =>
                /\ review_requests'[request_id].comments =
                        Append(review_requests[request_id].comments,
                               [author |-> author, timestamp |-> now,
                                content |-> "c", field |-> None])
                /\ review_requests'[request_id].status = review_requests[request_id].status
       /\ \A request_id \in DOMAIN review_requests, status \in ReviewStatuses :
            (ret'.op = "update_review_status"
                /\ UpdateReviewStatus(request_id, status)) =>
                /\ review_requests'[request_id].status = status
                /\ review_requests'[request_id].comments = review_requests[request_id].comments
       /\ \A request_id \in DOMAIN review_requests :
            /\ request_id \in DOMAIN review_requests'
            /\ review_requests'[request_id].status # review_requests[request_id].status =>
                    (ret'.op = "update_review_status" /\ ret'.args[1] = request_id)
            /\ review_requests'[request_id].comments # review_requests[request_id].comments =>
                    (ret'.op = "add_review_comment" /\ ret'.args[1] = request_id)]_vars

\* A request that was commented on twice is back in review and the other
\* request is approved without a comment: the status of the first was set
\* last.
C21_Witness ==
    /\ DOMAIN review_requests = RequestIds
    /\ ret.op = "update_review_status"
    /\ review_requests[ret.args[1]].status = "InReview"
    /\ Len(review_requests[ret.args[1]].comments) = 2
    /\ \E other \in RequestIds :
          /\ review_requests[other].status = "Approved"
          /\ review_requests[other].comments = <<>>

\* C22: add_review_comment and update_review_status on a request id that no
\* request has report NotFound to the caller.
C22_NotFoundSurfaced ==
    (ret.op \in {"add_review_comment", "update_review_status"}
        /\ ret.args[1] \notin DOMAIN review_requests) => ret.val = "NotFound"

\* C23: add_term refuses a term with an empty hebrew or an empty russian
\* text, so no term of the map has an empty hebrew or russian field.
C23_NoEmptyTexts ==
    \A k \in DOMAIN terms : terms[k].hebrew # <<>> /\ terms[k].russian # <<>>

\* The three indices are those of the term map.
IndicesOfTerms(ts, ci, xi, ti) ==
    /\ ci = [c \in {ts[k].category : k \in DOMAIN ts} \ {None} |->
                {k \in DOMAIN ts : ts[k].category = c}]
    /\ xi = [c \in {ts[k].context : k \in DOMAIN ts} \ {None} |->
                {k \in DOMAIN ts : ts[k].context = c}]
    /\ ti = [g \in UNION {ts[k].tags : k \in DOMAIN ts} |->
                {k \in DOMAIN ts : g \in ts[k].tags}]

\* C24: when the write of the file fails in add_term, in update_term of a key
\* the map holds or in delete_term, the call returns the error, the term map
\* holds the mutation, the indices are those of the mutated map and the file
\* is what it was.
C24_FailedWriteKeepsMutation ==
    [][save_failures' = save_failures + 1 =>
        /\ ret'.val = "Err"
        /\ file' = file
        /\ IndicesOfTerms(terms', category_index', context_index', tag_index')
        /\ ret'.op = "add_term" =>
                \E term \in TermInputs :
                    /\ term.hebrew = ret'.args[1]
                    /\ terms' = Put(terms, term.hebrew, [term EXCEPT !.last_updated = now])
        /\ ret'.op = "update_term" =>
                /\ ret'.args[1] \in DOMAIN terms
                /\ \E updates \in TermInputs :
                    terms' = Put(terms, ret'.args[1], [updates EXCEPT !.last_updated = now])
        /\ ret'.op = "delete_term" =>
                terms' = [k \in (DOMAIN terms) \ {ret'.args[1]} |-> terms[k]]]_vars

\* add_term of a key the file does not hold has failed in its write, and the
\* term is in the map and in an index.
C24_Witness ==
    /\ ret.op = "add_term"
    /\ ret.val = "Err"
    /\ save_failures = 1
    /\ ret.args[1] \in DOMAIN terms
    /\ file.exists
    /\ ret.args[1] \notin DOMAIN file.content
    /\ \E c \in DOMAIN category_index : ret.args[1] \in category_index[c]

\* update_term of a key the file holds has failed in its write: the map has
\* the new russian text and the file the old one.
C24_WitnessUpdate ==
    /\ ret.op = "update_term"
    /\ ret.val = "Err"
    /\ file.exists
    /\ ret.args[1] \in DOMAIN file.content
    /\ ret.args[1] \in DOMAIN terms
    /\ terms[ret.args[1]].russian # file.content[ret.args[1]].russian

\* C25: after add_term, update_term of a key the map holds, or delete_term
\* has returned success, a TechnicalDictionary constructed from the file has
\* the same term map, field for field, and the indices of that map.
C25_RoundTrip ==
    (/\ ret.op \in {"add_term", "update_term", "delete_term"}
     /\ ret.val = "Ok"
     /\ ret.op = "update_term" => ret.args[1] \in DOMAIN terms) =>
        /\ file.exists
        /\ TechnicalDictionary_new(file).terms = terms
        /\ \A k \in DOMAIN terms : \A f \in DOMAIN terms[k] :
                TechnicalDictionary_new(file).terms[k][f] = terms[k][f]
        /\ IndicesOfTerms(TechnicalDictionary_new(file).terms, TechnicalDictionary_new(file).category_index,
                          TechnicalDictionary_new(file).context_index, TechnicalDictionary_new(file).tag_index)

\* A write failed and a later add_term succeeded: the file holds both terms
\* of the map again, one without category and context and one with tags.
C25_Witness ==
    /\ ret.op = "add_term"
    /\ ret.val = "Ok"
    /\ save_failures = 1
    /\ DOMAIN terms = Keys
    /\ \E k \in Keys : terms[k].category = None /\ terms[k].context = None
    /\ \E k \in Keys : Cardinality(terms[k].tags) = 2
    /\ TechnicalDictionary_new(file).terms = terms

\* C26: no caller of the dictionary or of the knowledge manager is left in a
\* call that does not return: no thread is at a lock() of a mutex it holds.
C26_EveryCallerReturns ==
    \A t \in Threads : pc[t].at \notin RelockOutcomes

\* C27: get_edit_conflicts returns a locked term only when two different
\* collaborators have an Editing activity of the last 30 minutes on it; each
\* of them was then active in those 30 minutes.
C27_ConflictNeedsTwoCollaborators ==
    (ret.op = "get_edit_conflicts" /\ ret.args[1] = now /\ ret.val # {}) =>
        Cardinality({u \in DOMAIN collaborators :
            collaborators[u].last_active > now - ConflictWindowMinutes}) >= 2

\* C30: update_collaborator_activity for a user who is not a collaborator
\* leaves the collaborators and the log as they were, so what
\* get_edit_conflicts and get_active_collaborators return is what they
\* returned before the call, and get_active_collaborators returns
\* collaborators only.
C30_UnregisteredIgnored ==
    /\ [](ret.op = "get_active_collaborators" => ret.val \subseteq DOMAIN collaborators)
    /\ [][(ret'.op = "update_collaborator_activity"
            /\ ret'.args[1] \notin DOMAIN collaborators
            /\ \E activity \in EditingInputs(now) :
                    UpdateCollaboratorActivity(ret'.args[1], activity)) =>
            /\ collaborators' = collaborators
            /\ activity_log' = activity_log
            /\ Cardinality(RecentEdits(HebA, now)') = Cardinality(RecentEdits(HebA, now))
            /\ {u \in DOMAIN collaborators' : collaborators'[u].last_active > now - ActiveWindowMinutes}
                    = {u \in DOMAIN collaborators : collaborators[u].last_active > now - ActiveWindowMinutes}
       ]_vars

\* "u3", who never registered, has just reported an edit of the locked term
\* of which the log holds one edit, by the collaborator: a second edit in the
\* log would make the term a conflict.
C30_Witness ==
    /\ ret.op = "update_collaborator_activity"
    /\ ret.args[1] = "u3"
    /\ ret.args[2].term_id = SomeTermId(HebA)
    /\ DOMAIN collaborators = {"u1"}
    /\ HebA \in DOMAIN edit_locks
    /\ Cardinality(RecentEdits(HebA, now)) = 1

\* C28: every pair merge_dictionaries reports as conflicting is a base term
\* and another term of that key that differ in content.
C28_ConflictsDisagree ==
    ret.op = "merge_dictionaries" =>
        \A i \in DOMAIN ret.val.report.conflicting_terms :
            ret.val.report.conflicting_terms[i][1] # ret.val.report.conflicting_terms[i][2]

\* C29: what translate returned for a text and a source language is what it
\* returns for them in whatever order the terms of the map are visited.
C29_TranslateDeterministic ==
    ret.op = "translate" =>
        \A order \in Orders(DOMAIN terms) :
            translate(Dict, ret.args[1], ret.args[2], order) = ret.val

====
